---------------------------- MODULE Spec2Model ----------------------------
(***************************************************************************)
(* A model of fatras: the classification of page faults (common.py), the   *)
(* per-process bucketing of faults by source location (report.py), the     *)
(* pairing of raw trace lines (common.py) and the capture lifecycle around *)
(* the kernel tracing facility (record.py, bootstrap.py).                  *)
(*                                                                         *)
(* These specifications share the module:                                  *)
(*   Spec       handle_report on one process of the lineage                *)
(*   SpecClass  Fault.test_type on one fault                               *)
(*   SpecParse  FaultParser.parse on one sequence of trace lines           *)
(*   SpecLife   handle_record: orchestrator, sentinel, bootstrap           *)
(*   SpecCoord  the sentinel under any order of SIGUSR1 and SIGUSR2        *)
(*   SpecTrace  bootstrap.trace, the SIGVTALRM handler of a traced process *)
(* Each leaves the variables of the others at their idle values.           *)
(***************************************************************************)
EXTENDS Integers, Sequences, FiniteSets, TLC

VARIABLES
    \* ---- SpecClass: one Fault object
    flt,
    \* ---- Spec: handle_report, one iteration of `for proc in rels`
    faults_in,    \* faults_dict[pid], <<>> when pid is no key of faults_dict
    frames_in,    \* frames_dict[pid], <<>> when pid is no key of frames_dict
    fork_time,    \* proc['timestamp']
    faults,       \* the local `faults`
    skip_len,     \* the local `skip_len`
    curr_fid,     \* the local `curr_fid`
    memo,         \* the local `memo`, a dict in insertion order
    fidx,         \* number of frames the for loop has consumed
    rpc,          \* position in handle_report
    out,          \* the output file: whether it exists, and its rows
    acc,          \* history: what each accumulation read and counted
    \* ---- SpecParse: FaultParser.parse
    trace_lines,  \* the lines of the raw trace file, in file order
    pid_order,    \* the order in which `for pid in pids` visits the set
    pi,           \* number of pids the outer loop has finished
    li,           \* number of lines of the current pid's file consumed
    flag,         \* the local `flag`
    p_faults,     \* the local `_faults`
    ppc,          \* position in parse
    \* ---- SpecLife: handle_record and the processes it forks
    platform,     \* [linux, ftrace]: sys.platform, the tracefs mount
    args,         \* [ignore_children, timeout_given, prog_exists]
    setup_fail,   \* which fwrite of setup_ftrace raises (0: none)
    ctl,          \* the control files under /sys/kernel/tracing
    pid_file,     \* first line of /tmp/fatras/pids.txt, or "absent"
    opc,          \* orchestrator: position in handle_record
    setup_k,      \* orchestrator: fwrites of setup_ftrace done
    spc,          \* sentinel: position in start_sentinel
    hstack,       \* sentinel: running signal handlers, innermost first
    enabled,      \* sentinel: _enabled
    disabled,     \* sentinel: _disabled
    atexit_reg,   \* sentinel: atexit.register(reset_ftrace) was called
    pending,      \* signals sent to the sentinel and not yet handled
    warnings,     \* sentinel: warnings printed, per handler
    rnpc,         \* the child running start_bootstrap
    bpc,          \* bootstrap.py: position in start_process
    target_exc,   \* bootstrap.py: the target raised
    kids,         \* children forked by the target that have not terminated
    grandkids,    \* live processes forked by children of the target
    pipe,         \* lines in the kernel's trace_pipe
    produced,     \* lines the kernel has produced
    trace_file,   \* lines of /tmp/fatras/trace.txt
    ext_left,     \* SpecCoord: signals still to be sent
    hist,         \* history of the session, for the properties
    \* ---- SpecTrace: bootstrap.trace in one traced process
    stack,        \* the local `frame` and its f_back chain, innermost first
    s_fid,        \* the global `_fid`
    frame_file,   \* the records of /tmp/fatras/frames.txt
    tpc           \* position in trace

cvars == <<flt>>
rvars == <<faults_in, frames_in, fork_time, faults, skip_len, curr_fid, memo,
           fidx, rpc, out, acc>>
pvars == <<trace_lines, pid_order, pi, li, flag, p_faults, ppc>>
envvars == <<platform, args, setup_fail>>
ovars == <<opc, setup_k>>
svars == <<spc, hstack, enabled, disabled, atexit_reg, warnings>>
bvars == <<rnpc, bpc, target_exc, kids, grandkids>>
kvars == <<pipe, produced, trace_file>>
lvars == <<envvars, ctl, pid_file, ovars, svars, pending, bvars, kvars,
           ext_left, hist>>
tvars == <<stack, s_fid, frame_file, tpc>>
vars == <<cvars, rvars, pvars, lvars, tvars>>

---------------------------------------------------------------------------
(* Bounds of the model *)

\* timestamps are 1..MaxTime (fork_time 0..MaxTime)
MaxTime == 2
\* the longest faults_dict[pid]
MaxFaults == 1
\* the longest frames_dict[pid]
MaxFrames == 2
\* the return value of the fault handler is below 2^RetWidth
RetWidth == 13

---------------------------------------------------------------------------
(* common.py: FaultUtils *)

VM_FAULT_OOM == 1
VM_FAULT_SIGBUS == 2
VM_FAULT_MAJOR == 4
VM_FAULT_HWPOISON == 16
VM_FAULT_HWPOISON_LARGE == 32
VM_FAULT_SIGSEGV == 64
VM_FAULT_RETRY == 1024
VM_FAULT_FALLBACK == 2048
VM_FAULT_DONE_COW == 4096
VM_FAULT_ERROR ==
    VM_FAULT_OOM + VM_FAULT_SIGBUS + VM_FAULT_SIGSEGV + VM_FAULT_HWPOISON
    + VM_FAULT_HWPOISON_LARGE + VM_FAULT_FALLBACK

FAULT_FLAG_WRITE == 1
FAULT_FLAG_TRIED == 32
FAULT_FLAG_USER == 64

\* the error code test_type compares with
ERROR_CODE_COW == 7

\* Python's a & b on non-negative integers
RECURSIVE BitAnd(_, _)
BitAnd(a, b) ==
    IF a = 0 \/ b = 0 THEN 0
    ELSE (a % 2) * (b % 2) + 2 * BitAnd(a \div 2, b \div 2)

should_trace(ret, flags) ==
    IF BitAnd(ret, VM_FAULT_RETRY) # 0 THEN FALSE
    ELSE IF BitAnd(ret, VM_FAULT_ERROR) # 0 THEN FALSE
    ELSE TRUE

\* is_major raises ValueError when should_trace is false; test_type calls it
\* only after should_trace returned True
is_major(ret, flags) ==
    BitAnd(ret, VM_FAULT_MAJOR) # 0 \/ BitAnd(flags, FAULT_FLAG_TRIED) # 0

(* common.py: Fault *)

\* Fault.__init__ : the fields test_type reads, type None
FaultInit == [flags |-> 0, ret |-> 0, error |-> -1, type |-> "None"]

\* test_type with the major test ahead of the error-code test
test_type_major_first(f) ==
    IF ~should_trace(f.ret, f.flags) THEN "ignore"
    ELSE IF is_major(f.ret, f.flags) THEN "maj"
    ELSE IF f.error = ERROR_CODE_COW THEN "cow"
    ELSE "min"

\* the value test_type assigns to self.type
test_type(f) ==
    IF ~should_trace(f.ret, f.flags) THEN "ignore"
    ELSE IF f.error = ERROR_CODE_COW THEN "cow"
    ELSE IF is_major(f.ret, f.flags) THEN "maj"
    ELSE "min"

---------------------------------------------------------------------------
(* SpecClass: test_type on every (flags, ret, error) of the bounded sets *)

RECURSIVE Pow2(_)
Pow2(n) == IF n = 0 THEN 1 ELSE 2 * Pow2(n - 1)

RetValues == 0 .. (Pow2(RetWidth) - 1)
FlagValues ==
    {w + t + u : w \in {0, FAULT_FLAG_WRITE}, t \in {0, FAULT_FLAG_TRIED},
                 u \in {0, FAULT_FLAG_USER}}
ErrorValues == {-1, 0, 4, 6, 7, 15}

ReportIdle ==
    /\ faults_in = <<>>
    /\ frames_in = <<>>
    /\ fork_time = 0
    /\ faults = <<>>
    /\ skip_len = 0
    /\ curr_fid = -1
    /\ memo = <<>>
    /\ fidx = 0
    /\ rpc = "idle"
    /\ out = [created |-> FALSE, rows |-> <<>>]
    /\ acc = <<>>

ClassIdle == flt = FaultInit

TraceIdle ==
    /\ stack = <<>>
    /\ s_fid = 0
    /\ frame_file = <<>>
    /\ tpc = "idle"

ParseIdle ==
    /\ trace_lines = <<>>
    /\ pid_order = <<>>
    /\ pi = 0
    /\ li = 0
    /\ flag = FALSE
    /\ p_faults = <<>>
    /\ ppc = "idle"

LifeIdle ==
    /\ platform = [linux |-> TRUE, ftrace |-> TRUE]
    /\ args = [ignore_children |-> FALSE, timeout_given |-> FALSE,
               prog_exists |-> TRUE]
    /\ setup_fail = 0
    /\ ctl = <<>>
    /\ pid_file = "absent"
    /\ opc = "idle"
    /\ setup_k = 0
    /\ spc = "none"
    /\ hstack = <<>>
    /\ enabled = FALSE
    /\ disabled = FALSE
    /\ atexit_reg = FALSE
    /\ pending = {}
    /\ warnings = <<>>
    /\ rnpc = "none"
    /\ bpc = "none"
    /\ target_exc = FALSE
    /\ kids = 0
    /\ grandkids = 0
    /\ pipe = <<>>
    /\ produced = 0
    /\ trace_file = <<>>
    /\ ext_left = 0
    /\ hist = <<>>

ClassInit ==
    /\ flt \in [flags : FlagValues, ret : RetValues, error : ErrorValues,
                type : {"None"}]
    /\ ReportIdle
    /\ ParseIdle
    /\ LifeIdle
    /\ TraceIdle

\* Fault.test_type
TestType ==
    /\ flt.type = "None"
    /\ flt' = [flt EXCEPT !.type = test_type(flt)]
    /\ UNCHANGED <<rvars, pvars, lvars, tvars>>

ClassNext == TestType

SpecClass == ClassInit /\ [][ClassNext]_vars

---------------------------------------------------------------------------
(* report.py: helpers *)

\* Python's s[n:]
Slice(s, n) == IF n >= Len(s) THEN <<>> ELSE SubSeq(s, n + 1, Len(s))

get_data_before(group, timestamp) ==
    SelectSeq(group, LAMBDA element : element.timestamp <= timestamp)

get_cpus(fs) == {fs[i].cpu : i \in 1 .. Len(fs)}

CountType(fs, t) == Cardinality({i \in 1 .. Len(fs) : fs[i].type = t})

\* count_faults_by_types with a final else that counts the fault as minor
count_faults_by_types_else_min(fs) ==
    [cow |-> CountType(fs, "cow"),
     min |-> Len(fs) - CountType(fs, "cow") - CountType(fs, "maj"),
     maj |-> CountType(fs, "maj")]

\* (cow, min, maj) as a record
count_faults_by_types(fs) ==
    [cow |-> CountType(fs, "cow"),
     min |-> CountType(fs, "min"),
     maj |-> CountType(fs, "maj")]

\* memo is a dict: a sequence of entries in insertion order, keys distinct
HasKey(m, key) == \E i \in 1 .. Len(m) : m[i].key = key
KeyIndex(m, key) == CHOOSE i \in 1 .. Len(m) : m[i].key = key
Bucket(m, key) == m[KeyIndex(m, key)]

\* memo[key] = {...} with the fields lines 94-99, 114-119 and 129-134 set
NewBucket(key, lineno, filename, fs) ==
    [key |-> key, cpus |-> get_cpus(fs), lineno |-> lineno,
     filename |-> filename,
     cow |-> count_faults_by_types(fs).cow,
     min |-> count_faults_by_types(fs).min,
     maj |-> count_faults_by_types(fs).maj]

\* memo[key] = value: a new key goes last, an old key keeps its place
SetItem(m, key, b) ==
    IF HasKey(m, key) THEN [m EXCEPT ![KeyIndex(m, key)] = b]
    ELSE Append(m, b)

\* the else branch, lines 121-125: set.union returns a new set and the
\* result is dropped; cow is added to, min and maj are assigned
UpdateBucket(b, fs) ==
    [b EXCEPT !.cow = b.cow + count_faults_by_types(fs).cow,
              !.min = count_faults_by_types(fs).min,
              !.maj = count_faults_by_types(fs).maj]

\* sorted(seq, key=lambda x: x[1]['cow']): stable insertion sort
RECURSIVE InsertByCow(_, _)
InsertByCow(sorted, b) ==
    IF sorted = <<>> THEN <<b>>
    ELSE IF sorted[Len(sorted)].cow <= b.cow THEN Append(sorted, b)
    ELSE Append(InsertByCow(SubSeq(sorted, 1, Len(sorted) - 1), b),
                sorted[Len(sorted)])

RECURSIVE SortedByCow(_)
SortedByCow(m) ==
    IF m = <<>> THEN <<>>
    ELSE InsertByCow(SortedByCow(SubSeq(m, 1, Len(m) - 1)), m[Len(m)])

\* the f-string of line 106, on the locations of the model
FrameKey(frame) ==
    IF frame.lineno = 10 /\ frame.filename = "a.py" THEN "10-a.py"
    ELSE IF frame.lineno = 20 /\ frame.filename = "a.py" THEN "20-a.py"
    ELSE "other"

---------------------------------------------------------------------------
(* Spec: the inputs of handle_report *)

\* what the recorded faults look like: (cpu, flags, ret, error) and whether
\* the return line was paired; an unpaired fault keeps type None
FaultShapes ==
    {[cpu |-> 0, flags |-> 0, ret |-> 0, error |-> 7, paired |-> TRUE],
     [cpu |-> 1, flags |-> 0, ret |-> 0, error |-> 6, paired |-> TRUE],
     [cpu |-> 0, flags |-> 0, ret |-> VM_FAULT_MAJOR, error |-> 4,
      paired |-> TRUE],
     [cpu |-> 1, flags |-> 0, ret |-> VM_FAULT_RETRY, error |-> 7,
      paired |-> TRUE],
     [cpu |-> 1, flags |-> 0, ret |-> 0, error |-> 6, paired |-> FALSE]}

\* a fault as FaultParser.parse leaves it; id is its place in faults_dict[pid]
MkFault(id, ts, sh) ==
    [id |-> id, timestamp |-> ts, cpu |-> sh.cpu, flags |-> sh.flags,
     ret |-> sh.ret, error |-> sh.error,
     type |-> IF sh.paired THEN test_type(sh) ELSE "None"]

Times == 1 .. MaxTime

\* faults of one process, in time order
FaultInputs(maxlen) ==
    UNION {{[i \in 1 .. n |-> MkFault(i, ts[i], sh[i])] :
              ts \in {t \in [1 .. n -> Times] :
                        \A i \in 1 .. n - 1 : t[i] <= t[i + 1]},
              sh \in [1 .. n -> FaultShapes]} : n \in 0 .. maxlen}

Locations ==
    {[lineno |-> 10, filename |-> "a.py"], [lineno |-> 20, filename |-> "a.py"]}

\* frames of one process as bootstrap.trace writes them: fid starts at 0 and
\* grows by one per tick, timestamps grow from tick to tick
FrameInputs(maxlen) ==
    UNION {{[i \in 1 .. n |->
                [fid |-> Cardinality({j \in 2 .. i : nw[j]}),
                 lineno |-> loc[i].lineno, filename |-> loc[i].filename,
                 timestamp |-> ts[i]]] :
              ts \in {t \in [1 .. n -> Times] :
                        \A i \in 1 .. n - 1 : t[i] <= t[i + 1]},
              nw \in {b \in [1 .. n -> BOOLEAN] :
                        \A i \in 1 .. n : i = 1 => b[i]},
              loc \in [1 .. n -> Locations]} : n \in 0 .. maxlen}

Init ==
    /\ faults_in \in FaultInputs(MaxFaults)
    /\ frames_in \in {fr \in FrameInputs(MaxFrames) :
                        \A i \in 1 .. Len(fr) - 1 :
                            fr[i].fid # fr[i + 1].fid
                                => fr[i].timestamp < fr[i + 1].timestamp}
    /\ fork_time \in 0 .. MaxTime
    /\ faults = <<>>
    /\ skip_len = 0
    /\ curr_fid = -1
    /\ memo = <<>>
    /\ fidx = 0
    /\ rpc = "startup"
    /\ out = [created |-> FALSE, rows |-> <<>>]
    /\ acc = <<>>
    /\ ClassIdle
    /\ ParseIdle
    /\ LifeIdle
    /\ TraceIdle

\* history: one accumulation into bucket `key` that read the faults fs
AccEntry(key, fs) ==
    [key |-> key, ids |-> {fs[i].id : i \in 1 .. Len(fs)},
     cow |-> count_faults_by_types(fs).cow,
     min |-> count_faults_by_types(fs).min,
     maj |-> count_faults_by_types(fs).maj]

\* lines 88-100: faults_dict[pid] raises KeyError when the process has no
\* fault; else the startup bucket
Startup ==
    /\ rpc = "startup"
    /\ IF faults_in = <<>>
       THEN /\ rpc' = "KeyError"
            /\ UNCHANGED <<faults, memo, acc>>
       ELSE LET startup_faults == get_data_before(faults_in, fork_time) IN
            /\ memo' = SetItem(<<>>, "startup",
                               NewBucket("startup", -1, "", startup_faults))
            /\ faults' = Slice(faults_in, Len(startup_faults))
            /\ acc' = Append(acc, AccEntry("startup", startup_faults))
            /\ rpc' = "frames"
    /\ UNCHANGED <<faults_in, frames_in, fork_time, skip_len, curr_fid, fidx,
                   out,
                   cvars, tvars, pvars, lvars>>

\* line 102: frames_dict[pid] raises KeyError when the process has no frame
NoFrames ==
    /\ rpc = "frames"
    /\ frames_in = <<>>
    /\ rpc' = "KeyError"
    /\ UNCHANGED <<faults_in, frames_in, fork_time, faults, skip_len,
                   curr_fid, memo, fidx, out, acc,
                   cvars, tvars, pvars, lvars>>

\* lines 105-125: one iteration of `for frame in frames`
Frame ==
    /\ rpc = "frames"
    /\ fidx < Len(frames_in)
    /\ LET frame == frames_in[fidx + 1]
           key == FrameKey(frame)
           newtick == frame.fid # curr_fid
           fs == IF newtick THEN Slice(faults_in, skip_len) ELSE faults
           line_faults == get_data_before(fs, frame.timestamp)
       IN /\ curr_fid' = IF newtick THEN frame.fid ELSE curr_fid
          /\ faults' = fs
          /\ skip_len' = Len(line_faults)
          /\ memo' = IF ~HasKey(memo, key)
                     THEN SetItem(memo, key,
                                  NewBucket(key, frame.lineno, frame.filename,
                                            line_faults))
                     ELSE SetItem(memo, key,
                                  UpdateBucket(Bucket(memo, key), line_faults))
          /\ acc' = Append(acc, AccEntry(key, line_faults))
    /\ fidx' = fidx + 1
    /\ UNCHANGED <<faults_in, frames_in, fork_time, rpc, out,
                   cvars, tvars, pvars, lvars>>

\* lines 127-134: the teardown bucket
Teardown ==
    /\ rpc = "frames"
    /\ frames_in # <<>>
    /\ fidx = Len(frames_in)
    /\ LET rest == Slice(faults, skip_len) IN
          /\ faults' = rest
          /\ memo' = SetItem(memo, "teardown",
                             NewBucket("teardown", -1, "", rest))
          /\ acc' = Append(acc, AccEntry("teardown", rest))
    /\ rpc' = "sort"
    /\ UNCHANGED <<faults_in, frames_in, fork_time, skip_len, curr_fid, fidx,
                   out,
                   cvars, tvars, pvars, lvars>>

\* lines 136-137 and 70-78: sorted() makes memo a list of (key, bucket)
\* pairs in ascending cow order; serialize_memo_by_pid creates the file
\* empty (line 72) and then calls memo.items() on the list (line 75), which
\* raises AttributeError before a row is written
SortAndSerialize ==
    /\ rpc = "sort"
    /\ memo' = SortedByCow(memo)
    /\ out' = [created |-> TRUE, rows |-> <<>>]
    /\ rpc' = "AttributeError"
    /\ UNCHANGED <<faults_in, frames_in, fork_time, faults, skip_len,
                   curr_fid, fidx, acc,
                   cvars, tvars, pvars, lvars>>

Next == Startup \/ NoFrames \/ Frame \/ Teardown \/ SortAndSerialize

Spec == Init /\ [][Next]_vars

\* handle_report where every tick left one frame, over a longer trace
MaxTieTime == 3
MaxTieFaults == 2
MaxTieTicks == 3

\* faults of one process, in time order, up to MaxTieTime
TieFaults(maxlen) ==
    UNION {{[i \in 1 .. n |-> MkFault(i, ts[i], sh[i])] :
              ts \in {t \in [1 .. n -> 1 .. MaxTieTime] :
                        \A i \in 1 .. n - 1 : t[i] <= t[i + 1]},
              sh \in [1 .. n -> FaultShapes]} : n \in 0 .. maxlen}

\* one frame per tick: fid 0, 1, 2, ... and growing timestamps
TieFrames(maxlen) ==
    UNION {{[i \in 1 .. n |->
                [fid |-> i - 1,
                 lineno |-> loc[i].lineno, filename |-> loc[i].filename,
                 timestamp |-> ts[i]]] :
              ts \in {t \in [1 .. n -> 1 .. MaxTieTime] :
                        \A i \in 1 .. n - 1 : t[i] < t[i + 1]},
              loc \in [1 .. n -> Locations]} : n \in 0 .. maxlen}

TieInit ==
    /\ faults_in \in TieFaults(MaxTieFaults)
    /\ frames_in \in TieFrames(MaxTieTicks)
    /\ fork_time \in 0 .. MaxTieTime
    /\ faults = <<>>
    /\ skip_len = 0
    /\ curr_fid = -1
    /\ memo = <<>>
    /\ fidx = 0
    /\ rpc = "startup"
    /\ out = [created |-> FALSE, rows |-> <<>>]
    /\ acc = <<>>
    /\ ClassIdle
    /\ ParseIdle
    /\ LifeIdle
    /\ TraceIdle

SpecTie == TieInit /\ [][Next]_vars

---------------------------------------------------------------------------
(* Properties of handle_report *)

Counted == {"cow", "min", "maj"}

\* the faults of the process that have a category other than ignore
CountedIds == {i \in 1 .. Len(faults_in) : faults_in[i].type \in Counted}

BucketTotal(b) == b.cow + b.min + b.maj

RECURSIVE MemoTotal(_)
MemoTotal(m) ==
    IF m = <<>> THEN 0
    ELSE BucketTotal(m[Len(m)]) + MemoTotal(SubSeq(m, 1, Len(m) - 1))

\* the sum of field c over the accumulations into bucket `key`
RECURSIVE AccSum(_, _, _)
AccSum(a, key, c) ==
    IF a = <<>> THEN 0
    ELSE (IF a[Len(a)].key = key THEN a[Len(a)][c] ELSE 0)
         + AccSum(SubSeq(a, 1, Len(a) - 1), key, c)

LocationKeys == {FrameKey(l) : l \in Locations}

\* every bucket of the process has been computed (lines 88-136 have run)
WalkDone == rpc = "AttributeError"

\* C1: when handle_report has computed the buckets of a process, the minor+major+cow
\* counts of all its buckets add up to the number of its non-ignored
\* faults, and no non-ignored fault was read by two accumulations.
C1_Partition ==
    WalkDone =>
        /\ MemoTotal(memo) = Cardinality(CountedIds)
        /\ \A i, j \in 1 .. Len(acc) :
               i < j => acc[i].ids \cap acc[j].ids \cap CountedIds = {}

\* C7: a fault for which should_trace is false has category ignore, and
\* every accumulation counts exactly the faults it read for which
\* should_trace is true and whose return line was paired; a bucket never
\* holds more than its accumulations counted.
C7_IgnoredNeverCounted ==
    /\ \A i \in 1 .. Len(faults_in) :
           (faults_in[i].type # "None"
            /\ ~should_trace(faults_in[i].ret, faults_in[i].flags))
               => faults_in[i].type = "ignore"
    /\ \A k \in 1 .. Len(acc) :
           acc[k].cow + acc[k].min + acc[k].maj
               = Cardinality({i \in acc[k].ids :
                                /\ faults_in[i].type # "None"
                                /\ should_trace(faults_in[i].ret,
                                                faults_in[i].flags)})
    /\ \A k \in 1 .. Len(memo) :
           BucketTotal(memo[k])
               <= AccSum(acc, memo[k].key, "cow")
                  + AccSum(acc, memo[k].key, "min")
                  + AccSum(acc, memo[k].key, "maj")

\* the walk is over, and the accumulation into a source-location bucket
\* read a fault for which should_trace is false
C7_Witness ==
    /\ WalkDone
    /\ \E k \in 1 .. Len(acc) :
           /\ acc[k].key \in LocationKeys
           /\ \E i \in acc[k].ids :
                  /\ faults_in[i].type = "ignore"
                  /\ ~should_trace(faults_in[i].ret, faults_in[i].flags)

\* C9: every non-ignored fault with a timestamp before the first location
\* sample of the process is read by the startup accumulation and by no
\* accumulation into a source-location bucket.
C9_StartupBeforeFirstSample ==
    WalkDone =>
        LET early == {i \in CountedIds :
                        faults_in[i].timestamp < frames_in[1].timestamp}
        IN /\ early \subseteq acc[1].ids
           /\ \A k \in 1 .. Len(acc) :
                  acc[k].key \in LocationKeys => acc[k].ids \cap early = {}

\* every tick of the process left one frame
OneFramePerTick ==
    \A i, j \in 1 .. Len(frames_in) :
        i # j => frames_in[i].fid # frames_in[j].fid

\* C10: when every tick left one frame, after the walk each count of a source-location bucket is the sum,
\* over the ticks of that location, of the faults of that category read at
\* the tick.
C10_CountsSummed ==
    (WalkDone /\ OneFramePerTick) =>
        \A k \in 1 .. Len(memo) :
            memo[k].key \in LocationKeys =>
                /\ memo[k].cow = AccSum(acc, memo[k].key, "cow")
                /\ memo[k].min = AccSum(acc, memo[k].key, "min")
                /\ memo[k].maj = AccSum(acc, memo[k].key, "maj")

\* the CPU ids of the faults read by the accumulations into bucket `key`
AccCpus(key) ==
    UNION {{faults_in[i].cpu : i \in acc[k].ids} :
             k \in {j \in 1 .. Len(acc) : acc[j].key = key}}

\* C11: when every tick left one frame, after the walk the cpus of a
\* source-location bucket are the CPU ids of the faults read at all the
\* ticks of that location.
C11_CpuSetUnion ==
    (WalkDone /\ OneFramePerTick) =>
        \A k \in 1 .. Len(memo) :
            memo[k].key \in LocationKeys =>
                memo[k].cpus = AccCpus(memo[k].key)

\* the CPU ids of the counted faults read by the accumulations into `key`
AccCountedCpus(key) ==
    UNION {{faults_in[i].cpu : i \in acc[k].ids \cap CountedIds} :
             k \in {j \in 1 .. Len(acc) : acc[j].key = key}}

\* C27: the cpus of a bucket are CPU ids of faults counted in the cow, min
\* or maj of that bucket: a fault of category ignore, or one without a
\* category, adds no CPU id.
C27_CpusOfCountedFaults ==
    \A k \in 1 .. Len(memo) :
        memo[k].cpus \subseteq AccCountedCpus(memo[k].key)

\* C25: when every tick left one frame, a counted fault whose timestamp
\* equals the timestamp of tick k is read by the accumulation of tick k, and
\* neither by the accumulation that follows into another bucket (the next
\* tick's, or teardown after the last tick) nor by teardown.
C25_TieGoesToTick ==
    (WalkDone /\ OneFramePerTick) =>
        \A i \in CountedIds : \A k \in 1 .. Len(frames_in) :
            faults_in[i].timestamp = frames_in[k].timestamp =>
                /\ i \in acc[k + 1].ids
                /\ acc[k + 2].key # acc[k + 1].key => i \notin acc[k + 2].ids
                /\ i \notin acc[Len(acc)].ids

\* the keys of the frames fr in the order of their first occurrence
RECURSIVE FirstOccurrence(_)
FirstOccurrence(fr) ==
    IF fr = <<>> THEN <<>>
    ELSE LET before == FirstOccurrence(SubSeq(fr, 1, Len(fr) - 1))
             key == FrameKey(fr[Len(fr)])
         IN IF \E i \in 1 .. Len(before) : before[i] = key THEN before
            ELSE Append(before, key)

\* C12: after the walk the buckets stand in first-occurrence order of their
\* keys: startup, the source locations as the frames first show them,
\* teardown.
C12_FirstOccurrenceOrder ==
    WalkDone =>
        [k \in 1 .. Len(memo) |-> memo[k].key]
            = <<"startup">> \o FirstOccurrence(frames_in) \o <<"teardown">>

\* C13: a process with faults and without frames is handled without an
\* error, and once handled it has the buckets startup and teardown alone,
\* which together count its non-ignored faults.
C13_NoSamplesHandled ==
    (faults_in # <<>> /\ frames_in = <<>>) =>
        /\ rpc # "KeyError"
        /\ WalkDone =>
              /\ {memo[k].key : k \in 1 .. Len(memo)} = {"startup", "teardown"}
              /\ MemoTotal(memo) = Cardinality(CountedIds)

\* C17: once serialize_memo_by_pid has failed, no file is at the output
\* path; a file that is there holds one row per bucket.
C17_AtomicWrite ==
    /\ rpc = "AttributeError" => ~out.created
    /\ out.created => Len(out.rows) = Len(memo)

---------------------------------------------------------------------------
(* Properties of Fault.test_type *)

HasBit(x, k) == (x \div Pow2(k)) % 2 = 1

\* the reference rule, on bit positions
RefIgnore(f) ==
    \/ HasBit(f.ret, 10)
    \/ \E k \in {0, 1, 6, 4, 5, 11} : HasBit(f.ret, k)

RefCategory(f) ==
    IF RefIgnore(f) THEN "ignore"
    ELSE IF f.error = 7 THEN "cow"
    ELSE IF HasBit(f.ret, 2) \/ HasBit(f.flags, 5) THEN "maj"
    ELSE "min"

\* C6: the category test_type assigns is the reference rule's: ignore iff
\* the return bits have RETRY or one of OOM, SIGBUS, SIGSEGV, HWPOISON,
\* HWPOISON_LARGE, FALLBACK; else cow iff the error code is 0x7; else major
\* iff the return bits have MAJOR or the flags have TRIED; else minor.
C6_Classification ==
    flt.type # "None" => flt.type = RefCategory(flt)

\* a classified fault that is cow although it also qualifies as major
C6_Witness ==
    /\ flt.type = "cow"
    /\ HasBit(flt.ret, 2)
    /\ HasBit(flt.flags, 5)

---------------------------------------------------------------------------
(* record.py: the kernel tracing control surface *)

\* bounds of SpecLife
\* signals sent to the sentinel in SpecCoord
MaxExtSignals == 4
\* lines the kernel produces during one session
MaxLines == 2
\* processes the target forks, and processes those fork
MaxChildren == 1

TRACING_ON == "tracing_on"
TRACE_CLOCK == "trace_clock"
EVENT_FORK == "options/event-fork"
PF_ENABLE == "events/exceptions/page_fault_user/enable"
SET_EVENT_PID == "set_event_pid"
BUFFER_SIZE == "buffer_size_kb"

Controls ==
    {TRACING_ON, TRACE_CLOCK, EVENT_FORK, PF_ENABLE, SET_EVENT_PID,
     BUFFER_SIZE}

\* fwrite(os.path.join(_ftrace_path, path), text)
fwrite(c, path, text) == [c EXCEPT ![path] = text]

\* the five fwrite calls of reset_ftrace, in order
ResetWrites ==
    << <<TRACING_ON, "0">>, <<TRACE_CLOCK, "local">>, <<EVENT_FORK, "0">>,
       <<PF_ENABLE, "0">>, <<SET_EVENT_PID, "">> >>

\* the fwrite calls of setup_ftrace, reset_ftrace's first
SetupWrites(ignore_children) ==
    ResetWrites \o
    << <<TRACE_CLOCK, "mono">>, <<PF_ENABLE, "1">>, <<BUFFER_SIZE, "1024">>,
       <<EVENT_FORK, IF ignore_children THEN "0" ELSE "1">> >>

RECURSIVE ApplyWrites(_, _)
ApplyWrites(c, ws) ==
    IF ws = <<>> THEN c
    ELSE ApplyWrites(fwrite(c, ws[1][1], ws[1][2]), Tail(ws))

\* reset_ftrace on a Linux with tracefs mounted
reset_ftrace(c) == ApplyWrites(c, ResetWrites)

\* the facility as an earlier user or an earlier session may have left it
InertCtl ==
    [x \in Controls |->
        CASE x = TRACING_ON -> "0"
          [] x = TRACE_CLOCK -> "local"
          [] x = EVENT_FORK -> "0"
          [] x = PF_ENABLE -> "0"
          [] x = SET_EVENT_PID -> ""
          [] x = BUFFER_SIZE -> "default"]

LeftOnCtl ==
    [x \in Controls |->
        CASE x = TRACING_ON -> "1"
          [] x = TRACE_CLOCK -> "mono"
          [] x = EVENT_FORK -> "1"
          [] x = PF_ENABLE -> "1"
          [] x = SET_EVENT_PID -> "stale"
          [] x = BUFFER_SIZE -> "1024"]

Signals == {"USR1", "USR2"}

HistInit ==
    [trace_on_writes |-> 0,   \* times tracing_on was written '1'
     stop_handled |-> FALSE,  \* a disable_ftrace call has returned
     on_after_stop |-> FALSE, \* '1' was written after stop_handled
     armed |-> FALSE,         \* setup_ftrace has written a control
     cleanup |-> FALSE,       \* reset_ftrace ran after the last arming write
     last_sig |-> "none",     \* signal of the handler that returned last
     dups |-> {},             \* signals handled right after the same signal
     boot_sent |-> {},        \* signals bootstrap.py has sent
     timed_out |-> FALSE,     \* check_call's timeout expired
     io_error |-> FALSE]      \* the drain loop was left by an OSError

LifeInit ==
    /\ platform \in {[linux |-> TRUE, ftrace |-> TRUE],
                     [linux |-> TRUE, ftrace |-> FALSE],
                     [linux |-> FALSE, ftrace |-> FALSE]}
    /\ args \in [ignore_children : BOOLEAN, timeout_given : BOOLEAN,
                 prog_exists : BOOLEAN]
    /\ setup_fail \in 0 .. Len(SetupWrites(FALSE))
    /\ ctl \in {InertCtl, LeftOnCtl}
    /\ pid_file \in {"absent", "stale"}
    /\ opc = "start"
    /\ setup_k = 0
    /\ spc = "none"
    /\ hstack = <<>>
    /\ enabled = FALSE
    /\ disabled = FALSE
    /\ atexit_reg = FALSE
    /\ pending = {}
    /\ warnings = [sig \in Signals |-> 0]
    /\ rnpc = "none"
    /\ bpc = "none"
    /\ target_exc = FALSE
    /\ kids = 0
    /\ grandkids = 0
    /\ pipe = <<>>
    /\ produced = 0
    /\ trace_file = <<>>
    /\ ext_left = 0
    /\ hist = HistInit
    /\ ClassIdle
    /\ ReportIdle
    /\ ParseIdle
    /\ TraceIdle

---------------------------------------------------------------------------
(* record.py: handle_record, the orchestrating process *)

\* the two checks without the exist_ftrace test of lines 52-53
OrchCheckNoFtrace ==
    /\ opc = "start"
    /\ opc' = IF ~platform.linux THEN "raised_platform" ELSE "setup"
    /\ UNCHANGED <<envvars, ctl, pid_file, setup_k, svars, pending, bvars,
                   kvars, ext_left, hist, cvars, tvars, rvars, pvars>>

\* setup_ftrace -> reset_ftrace, lines 49-53: the two checks
OrchCheck ==
    /\ opc = "start"
    /\ opc' = IF ~platform.linux THEN "raised_platform"
              ELSE IF ~platform.ftrace THEN "raised_ftrace"
              ELSE "setup"
    /\ UNCHANGED <<envvars, ctl, pid_file, setup_k, svars, pending, bvars,
                   kvars, ext_left, hist, cvars, tvars, rvars, pvars>>

\* one fwrite of setup_ftrace (lines 55-59, 71-74); an fwrite may raise
OrchWrite ==
    /\ opc = "setup"
    /\ LET ws == SetupWrites(args.ignore_children)
           k == setup_k + 1
       IN IF setup_fail = k
          THEN /\ opc' = "raised_io"
               /\ UNCHANGED <<ctl, setup_k, hist>>
          ELSE /\ ctl' = fwrite(ctl, ws[k][1], ws[k][2])
               /\ setup_k' = k
               /\ opc' = IF k = Len(ws) THEN "fork_sentinel" ELSE "setup"
               /\ hist' = IF k > Len(ResetWrites)
                          THEN [hist EXCEPT !.armed = TRUE, !.cleanup = FALSE]
                          ELSE hist
    /\ UNCHANGED <<envvars, pid_file, svars, pending, bvars, kvars, ext_left,
                   cvars, tvars, rvars, pvars>>

\* line 156: os.fork(); the child runs start_sentinel
OrchForkSentinel ==
    /\ opc = "fork_sentinel"
    /\ opc' = "fork_bootstrap"
    /\ spc' = "init"
    /\ UNCHANGED <<envvars, ctl, pid_file, setup_k, hstack, enabled, disabled,
                   atexit_reg, warnings, pending, bvars, kvars, ext_left,
                   hist, cvars, tvars, rvars, pvars>>

\* line 160: os.fork(); the child runs start_bootstrap
OrchForkBootstrap ==
    /\ opc = "fork_bootstrap"
    /\ opc' = "waitpid"
    /\ rnpc' = "start"
    /\ UNCHANGED <<envvars, ctl, pid_file, setup_k, svars, pending, bpc,
                   target_exc, kids, grandkids, kvars, ext_left,
                   hist, cvars, tvars, rvars, pvars>>

RunnerExited == {"returned", "raised"}

\* lines 171-174: os.waitpid(pid, 0) and return
OrchWaitpid ==
    /\ opc = "waitpid"
    /\ rnpc \in RunnerExited
    /\ opc' = "returned"
    /\ UNCHANGED <<envvars, ctl, pid_file, setup_k, svars, pending, bvars,
                   kvars, ext_left, hist, cvars, tvars, rvars, pvars>>

---------------------------------------------------------------------------
(* record.py: start_bootstrap, in the second child of handle_record *)

BootExited == {"exit0", "exit1", "killed"}

\* lines 148-149: --timeout has nargs=1, so a given timeout is a list and
\* max(args.timeout, 0) raises TypeError; else check_call spawns bootstrap.py
RunnerSpawn ==
    /\ rnpc = "start"
    /\ IF args.timeout_given
       THEN rnpc' = "raised" /\ UNCHANGED bpc
       ELSE rnpc' = "waiting" /\ bpc' = "check_prog"
    /\ UNCHANGED <<envvars, ctl, pid_file, ovars, svars, pending, target_exc,
                   kids, grandkids, kvars, ext_left, hist, cvars, tvars,
                   rvars, pvars>>

\* check_call: bootstrap.py has exited (CalledProcessError unless it exited 0)
RunnerReap ==
    /\ rnpc = "waiting"
    /\ bpc \in {"exit0", "exit1"}
    /\ rnpc' = IF bpc = "exit0" THEN "returned" ELSE "raised"
    /\ UNCHANGED <<envvars, ctl, pid_file, ovars, svars, pending, bpc,
                   target_exc, kids, grandkids, kvars, ext_left,
                   hist, cvars, tvars, rvars, pvars>>

\* check_call: the timeout expires; Popen.kill() sends SIGKILL to
\* bootstrap.py alone and TimeoutExpired is raised
RunnerTimeout ==
    /\ rnpc = "waiting"
    /\ bpc \notin BootExited
    /\ bpc' = "killed"
    /\ rnpc' = "raised"
    /\ hist' = [hist EXCEPT !.timed_out = TRUE]
    /\ UNCHANGED <<envvars, ctl, pid_file, ovars, svars, pending, target_exc,
                   kids, grandkids, kvars, ext_left, cvars, tvars, rvars,
                   pvars>>

---------------------------------------------------------------------------
(* bootstrap.py: start_process and the processes of the target *)

SentinelAlive == spc \in {"init", "usr1_set", "usr2_set", "wait", "drain"}

\* os.kill(sentinel_pid, sig): the signal is pending until the sentinel
\* handles it; a sentinel that has exited is a zombie and takes none
Kill(sig) == IF SentinelAlive THEN pending \cup {sig} ELSE pending

\* lines 136-137
BootCheckProg ==
    /\ bpc = "check_prog"
    /\ bpc' = IF args.prog_exists THEN "write_pid" ELSE "exit1"
    /\ UNCHANGED <<envvars, ctl, pid_file, ovars, svars, pending, rnpc,
                   target_exc, kids, grandkids, kvars, ext_left,
                   hist, cvars, tvars, rvars, pvars>>

\* the variant of the mutation check: the pid file is opened for appending,
\* so the first line of an older file stays
BootWritePidAppend ==
    /\ bpc = "write_pid"
    /\ pid_file' = IF pid_file = "absent" THEN "root" ELSE pid_file
    /\ bpc' = "send_start"
    /\ UNCHANGED <<envvars, ctl, ovars, svars, pending, rnpc, target_exc,
                   kids, grandkids, kvars, ext_left, hist, cvars, tvars,
                   rvars, pvars>>

\* lines 140-146
BootWritePid ==
    /\ bpc = "write_pid"
    /\ pid_file' = "root"
    /\ bpc' = "send_start"
    /\ UNCHANGED <<envvars, ctl, ovars, svars, pending, rnpc, target_exc,
                   kids, grandkids, kvars, ext_left, hist, cvars, tvars,
                   rvars, pvars>>

\* line 149
BootSendStart ==
    /\ bpc = "send_start"
    /\ pending' = Kill("USR1")
    /\ bpc' = "target"
    /\ hist' = [hist EXCEPT !.boot_sent = @ \cup {"USR1"}]
    /\ UNCHANGED <<envvars, ctl, pid_file, ovars, svars, rnpc, target_exc,
                   kids, grandkids, kvars, ext_left, cvars, tvars, rvars,
                   pvars>>

\* the target calls the patched os.fork (replacement_fork)
TargetFork ==
    /\ bpc = "target"
    /\ kids < MaxChildren
    /\ kids' = kids + 1
    /\ UNCHANGED <<envvars, ctl, pid_file, ovars, svars, pending, rnpc, bpc,
                   target_exc, grandkids, kvars, ext_left, hist,
                   cvars, tvars, rvars, pvars>>

\* lines 155-159: code.main() returns, or the import or main raises
TargetEnd ==
    /\ bpc = "target"
    /\ \E raised \in BOOLEAN :
          /\ target_exc' = raised
          /\ bpc' = IF raised THEN "finally" ELSE "wait_loop"
    /\ UNCHANGED <<envvars, ctl, pid_file, ovars, svars, pending, rnpc, kids,
                   grandkids, kvars, ext_left, hist, cvars, tvars, rvars,
                   pvars>>

\* line 162: os.wait() returns, a child has terminated
BootWait ==
    /\ bpc = "wait_loop"
    /\ kids > 0
    /\ kids' = kids - 1
    /\ UNCHANGED <<envvars, ctl, pid_file, ovars, svars, pending, rnpc, bpc,
                   target_exc, grandkids, kvars, ext_left, hist, cvars, tvars, rvars,
                   pvars>>

\* lines 162-164: os.wait() raises ChildProcessError, no child is left
BootNoChild ==
    /\ bpc = "wait_loop"
    /\ kids = 0
    /\ bpc' = "finally"
    /\ UNCHANGED <<envvars, ctl, pid_file, ovars, svars, pending, rnpc,
                   target_exc, kids, grandkids, kvars, ext_left, hist, cvars, tvars,
                   rvars, pvars>>

\* lines 165-168: the finally clause, then the process exits
BootSendStop ==
    /\ bpc = "finally"
    /\ pending' = Kill("USR2")
    /\ bpc' = IF target_exc THEN "exit1" ELSE "exit0"
    /\ hist' = [hist EXCEPT !.boot_sent = @ \cup {"USR2"}]
    /\ UNCHANGED <<envvars, ctl, pid_file, ovars, svars, rnpc, target_exc,
                   kids, grandkids, kvars, ext_left, cvars, tvars, rvars,
                   pvars>>

\* a child of the target forks (os.fork stays patched in the child)
ChildFork ==
    /\ kids > 0
    /\ grandkids < MaxChildren
    /\ grandkids' = grandkids + 1
    /\ UNCHANGED <<envvars, ctl, pid_file, ovars, svars, pending, rnpc, bpc,
                   target_exc, kids, kvars, ext_left, hist, cvars, tvars,
                   rvars, pvars>>

\* a child of the target terminates while bootstrap.py is not in os.wait
ChildExit ==
    /\ kids > 0
    /\ bpc # "wait_loop"
    /\ kids' = kids - 1
    /\ UNCHANGED <<envvars, ctl, pid_file, ovars, svars, pending, rnpc, bpc,
                   target_exc, grandkids, kvars, ext_left, hist, cvars, tvars, rvars,
                   pvars>>

GrandchildExit ==
    /\ grandkids > 0
    /\ grandkids' = grandkids - 1
    /\ UNCHANGED <<envvars, ctl, pid_file, ovars, svars, pending, rnpc, bpc,
                   target_exc, kids, kvars, ext_left, hist, cvars, tvars,
                   rvars, pvars>>

---------------------------------------------------------------------------
(* record.py: start_sentinel, in the first child of handle_record *)

\* signal.signal(sig, handler) has been called
Installed(sig) ==
    \/ sig = "USR1" /\ spc \in {"usr1_set", "usr2_set", "wait", "drain"}
    \/ sig = "USR2" /\ spc \in {"usr2_set", "wait", "drain"}

HandlerOf(sig) == IF sig = "USR1" THEN "enable_ftrace" ELSE "disable_ftrace"

\* lines 125-128: clear the trace file, install the handlers, register
\* reset_ftrace with atexit
SentinelSetup ==
    /\ spc \in {"init", "usr1_set", "usr2_set"}
    /\ hstack = <<>>
    /\ spc' = CASE spc = "init" -> "usr1_set"
                [] spc = "usr1_set" -> "usr2_set"
                [] spc = "usr2_set" -> "wait"
    /\ trace_file' = IF spc = "init" THEN <<>> ELSE trace_file
    /\ atexit_reg' = (spc = "usr2_set")
    /\ UNCHANGED <<envvars, ctl, pid_file, ovars, hstack, enabled, disabled,
                   warnings, pending, bvars, pipe, produced, ext_left, hist,
                   cvars, tvars, rvars, pvars>>

\* the sentinel takes a pending signal: the Python handler starts, on top of
\* whatever runs, or the default action ends the process.  Signals pending
\* together are handled lowest number first.
Deliver(sig) ==
    /\ sig \in pending
    /\ SentinelAlive
    /\ sig = "USR2" => "USR1" \notin pending
    /\ pending' = pending \ {sig}
    /\ IF Installed(sig)
       THEN /\ hstack' = <<[h |-> HandlerOf(sig), pc |-> 1, ppid |-> "",
                            after |-> hist.last_sig]>> \o hstack
            /\ UNCHANGED spc
       ELSE /\ spc' = "killed"
            /\ hstack' = <<>>
    /\ UNCHANGED <<envvars, ctl, pid_file, ovars, enabled, disabled,
                   atexit_reg, warnings, bvars, kvars, ext_left, hist, cvars, tvars,
                   rvars, pvars>>

Pop(sig) ==
    /\ hstack' = Tail(hstack)
    /\ hist' = [hist EXCEPT
                  !.last_sig = sig,
                  !.dups = IF Head(hstack).after = sig THEN @ \cup {sig}
                           ELSE @]

Goto(n) == hstack' = <<[Head(hstack) EXCEPT !.pc = n]>> \o Tail(hstack)

\* an exception leaves every handler and start_sentinel: the process exits
Raise == /\ hstack' = <<>>
         /\ spc' = "exiting"

\* enable_ftrace without the `if _enabled` test of lines 107-109
EnableNoGuard ==
    /\ hstack # <<>>
    /\ SentinelAlive
    /\ Head(hstack).h = "enable_ftrace"
    /\ LET f == Head(hstack) IN
       CASE f.pc = 1 ->
              /\ Goto(2)
              /\ UNCHANGED <<enabled, ctl, spc, hist, warnings>>
         [] f.pc = 2 ->
              /\ enabled' = TRUE
              /\ Goto(3)
              /\ UNCHANGED <<ctl, spc, hist, warnings>>
         [] f.pc = 3 ->
              /\ IF pid_file = "absent"
                 THEN Raise
                 ELSE /\ hstack' = <<[f EXCEPT !.pc = 4, !.ppid = pid_file]>>
                                     \o Tail(hstack)
                      /\ UNCHANGED spc
              /\ UNCHANGED <<enabled, ctl, hist, warnings>>
         [] f.pc = 4 ->
              /\ ctl' = fwrite(ctl, SET_EVENT_PID, f.ppid)
              /\ Goto(5)
              /\ UNCHANGED <<enabled, spc, hist, warnings>>
         [] f.pc = 5 ->
              /\ ctl' = fwrite(ctl, TRACING_ON, "1")
              /\ hstack' = Tail(hstack)
              /\ hist' = [hist EXCEPT
                            !.last_sig = "USR1",
                            !.cleanup = FALSE,
                            !.trace_on_writes = @ + 1,
                            !.on_after_stop = @ \/ hist.stop_handled]
              /\ UNCHANGED <<enabled, spc, warnings>>
    /\ UNCHANGED <<envvars, pid_file, ovars, disabled, atexit_reg, pending,
                   bvars, kvars, ext_left, cvars, tvars, rvars, pvars>>

\* enable_ftrace, lines 105-114, one statement at a time
EnableStep ==
    /\ hstack # <<>>
    /\ SentinelAlive
    /\ Head(hstack).h = "enable_ftrace"
    /\ LET f == Head(hstack) IN
       CASE f.pc = 1 ->
              /\ IF enabled
                 THEN /\ warnings' = [warnings EXCEPT !["USR1"] = @ + 1]
                      /\ Pop("USR1")
                 ELSE /\ Goto(2)
                      /\ UNCHANGED <<warnings, hist>>
              /\ UNCHANGED <<enabled, ctl, spc>>
         [] f.pc = 2 ->
              /\ enabled' = TRUE
              /\ Goto(3)
              /\ UNCHANGED <<ctl, spc, hist, warnings>>
         [] f.pc = 3 ->
              /\ IF pid_file = "absent"
                 THEN Raise
                 ELSE /\ hstack' = <<[f EXCEPT !.pc = 4, !.ppid = pid_file]>>
                                     \o Tail(hstack)
                      /\ UNCHANGED spc
              /\ UNCHANGED <<enabled, ctl, hist, warnings>>
         [] f.pc = 4 ->
              /\ ctl' = fwrite(ctl, SET_EVENT_PID, f.ppid)
              /\ Goto(5)
              /\ UNCHANGED <<enabled, spc, hist, warnings>>
         [] f.pc = 5 ->
              /\ ctl' = fwrite(ctl, TRACING_ON, "1")
              /\ hstack' = Tail(hstack)
              /\ hist' = [hist EXCEPT
                            !.last_sig = "USR1",
                            !.cleanup = FALSE,
                            !.trace_on_writes = @ + 1,
                            !.on_after_stop = @ \/ hist.stop_handled]
              /\ UNCHANGED <<enabled, spc, warnings>>
    /\ UNCHANGED <<envvars, pid_file, ovars, disabled, atexit_reg, pending,
                   bvars, kvars, ext_left, cvars, tvars, rvars, pvars>>

\* disable_ftrace, lines 116-123, one statement at a time
DisableStep ==
    /\ hstack # <<>>
    /\ SentinelAlive
    /\ Head(hstack).h = "disable_ftrace"
    /\ LET f == Head(hstack) IN
       CASE f.pc = 1 ->
              /\ IF disabled
                 THEN /\ warnings' = [warnings EXCEPT !["USR2"] = @ + 1]
                      /\ Pop("USR2")
                      /\ UNCHANGED <<disabled, ctl>>
                 ELSE /\ Goto(2)
                      /\ UNCHANGED <<warnings, hist, disabled, ctl>>
         [] f.pc = 2 ->
              /\ disabled' = TRUE
              /\ Goto(3)
              /\ UNCHANGED <<ctl, hist, warnings>>
         [] f.pc = 3 ->
              /\ ctl' = fwrite(ctl, TRACING_ON, "0")
              /\ hstack' = Tail(hstack)
              /\ hist' = [hist EXCEPT !.last_sig = "USR2",
                                      !.stop_handled = TRUE]
              /\ UNCHANGED <<disabled, warnings>>
    /\ UNCHANGED <<envvars, pid_file, ovars, spc, enabled, atexit_reg,
                   pending, bvars, kvars, ext_left, cvars, tvars, rvars, pvars>>

\* lines 130-133: the loop ends once _enabled is set; open trace_pipe
SentinelEnabled ==
    /\ spc = "wait"
    /\ hstack = <<>>
    /\ enabled
    /\ spc' = "drain"
    /\ UNCHANGED <<envvars, ctl, pid_file, ovars, hstack, enabled, disabled,
                   atexit_reg, warnings, pending, bvars, kvars, ext_left,
                   hist, cvars, tvars, rvars, pvars>>

\* lines 136-140: readline returns a line, which is appended to the file
SentinelRead ==
    /\ spc = "drain"
    /\ hstack = <<>>
    /\ pipe # <<>>
    /\ trace_file' = Append(trace_file, Head(pipe))
    /\ pipe' = Tail(pipe)
    /\ UNCHANGED <<envvars, ctl, pid_file, ovars, svars, pending, bvars,
                   produced, ext_left, hist, cvars, tvars, rvars, pvars>>

\* the variant of the mutation check: the loop is left once _disabled is
\* set, whatever trace_pipe still holds
SentinelEOFOnFlag ==
    /\ spc = "drain"
    /\ hstack = <<>>
    /\ disabled
    /\ spc' = "exiting"
    /\ UNCHANGED <<envvars, ctl, pid_file, ovars, hstack, enabled, disabled,
                   atexit_reg, warnings, pending, bvars, kvars, ext_left,
                   hist, cvars, tvars, rvars, pvars>>

\* lines 136-139: readline returns '' and the loop breaks; start_sentinel
\* returns and the interpreter exits
SentinelEOF ==
    /\ spc = "drain"
    /\ hstack = <<>>
    /\ pipe = <<>>
    /\ ctl[TRACING_ON] = "0"
    /\ spc' = "exiting"
    /\ UNCHANGED <<envvars, ctl, pid_file, ovars, hstack, enabled, disabled,
                   atexit_reg, warnings, pending, bvars, kvars, ext_left,
                   hist, cvars, tvars, rvars, pvars>>

\* lines 133-140: open, readline or write raises OSError
SentinelDrainFail ==
    /\ spc = "drain"
    /\ hstack = <<>>
    /\ spc' = "exiting"
    /\ hist' = [hist EXCEPT !.io_error = TRUE]
    /\ UNCHANGED <<envvars, ctl, pid_file, ovars, hstack, enabled, disabled,
                   atexit_reg, warnings, pending, bvars, kvars, ext_left,
                   cvars, tvars, rvars, pvars>>

\* interpreter exit: the atexit callback, if line 128 was reached
SentinelExit ==
    /\ spc = "exiting"
    /\ spc' = "done"
    /\ IF atexit_reg
       THEN /\ ctl' = reset_ftrace(ctl)
            /\ hist' = [hist EXCEPT !.cleanup = TRUE]
       ELSE UNCHANGED <<ctl, hist>>
    /\ pending' = {}
    /\ UNCHANGED <<envvars, pid_file, ovars, hstack, enabled, disabled,
                   atexit_reg, warnings, bvars, kvars, ext_left, cvars, tvars, rvars,
                   pvars>>

---------------------------------------------------------------------------
(* the environment of a session *)

\* the kernel appends an event to trace_pipe while tracing is on
KernelEmit ==
    /\ opc # "start"
    /\ platform.ftrace
    /\ ctl[TRACING_ON] = "1"
    /\ ctl[PF_ENABLE] = "1"
    /\ produced < MaxLines
    /\ produced' = produced + 1
    /\ pipe' = Append(pipe, produced + 1)
    /\ UNCHANGED <<envvars, ctl, pid_file, ovars, svars, pending, bvars,
                   trace_file, ext_left, hist, cvars, tvars, rvars, pvars>>

\* SpecCoord: some process sends SIGUSR1 or SIGUSR2 to the sentinel
ExtSignal(sig) ==
    /\ ext_left > 0
    /\ SentinelAlive
    /\ ext_left' = ext_left - 1
    /\ pending' = pending \cup {sig}
    /\ UNCHANGED <<envvars, ctl, pid_file, ovars, svars, bvars, kvars, hist,
                   cvars, tvars, rvars, pvars>>

\* a session: bootstrap.py is the only sender of signals
LifeNext ==
    \/ OrchCheck \/ OrchWrite \/ OrchForkSentinel \/ OrchForkBootstrap
    \/ OrchWaitpid
    \/ RunnerSpawn \/ RunnerReap \/ RunnerTimeout
    \/ BootCheckProg \/ BootWritePid \/ BootSendStart \/ TargetFork
    \/ TargetEnd \/ BootWait \/ BootNoChild \/ BootSendStop
    \/ ChildFork \/ ChildExit \/ GrandchildExit
    \/ SentinelSetup \/ EnableStep \/ DisableStep \/ SentinelEnabled
    \/ SentinelRead \/ SentinelEOF \/ SentinelDrainFail \/ SentinelExit
    \/ KernelEmit
    \/ \E sig \in Signals : Deliver(sig)

SpecLife == LifeInit /\ [][LifeNext]_vars

\* the same with the fairness the scheduler gives: a process that can take
\* a step does take it; failures, timeouts and forks stay optional
LifeFair ==
    /\ WF_vars(OrchCheck \/ OrchWrite \/ OrchForkSentinel
               \/ OrchForkBootstrap \/ OrchWaitpid)
    /\ WF_vars(RunnerSpawn \/ RunnerReap)
    /\ WF_vars(BootCheckProg \/ BootWritePid \/ BootSendStart \/ TargetEnd
               \/ BootWait \/ BootNoChild \/ BootSendStop)
    /\ WF_vars(ChildExit \/ GrandchildExit)
    /\ WF_vars(SentinelSetup \/ EnableStep \/ DisableStep \/ SentinelEnabled
               \/ SentinelRead \/ SentinelEOF \/ SentinelExit)
    /\ WF_vars(\E sig \in Signals : Deliver(sig))

SpecLifeFair == SpecLife /\ LifeFair

---------------------------------------------------------------------------
(* SpecCoord: the sentinel alone, from its fork on, under any order and  *)
(* multiplicity of SIGUSR1 and SIGUSR2                                    *)

CoordInit ==
    /\ platform = [linux |-> TRUE, ftrace |-> TRUE]
    /\ args \in [ignore_children : BOOLEAN, timeout_given : {FALSE},
                 prog_exists : {TRUE}]
    /\ setup_fail = 0
    /\ ctl = ApplyWrites(InertCtl, SetupWrites(args.ignore_children))
    /\ pid_file \in {"absent", "stale", "root"}
    /\ opc = "fork_bootstrap"
    /\ setup_k = Len(SetupWrites(FALSE))
    /\ spc = "init"
    /\ hstack = <<>>
    /\ enabled = FALSE
    /\ disabled = FALSE
    /\ atexit_reg = FALSE
    /\ pending = {}
    /\ warnings = [sig \in Signals |-> 0]
    /\ rnpc = "none"
    /\ bpc = "none"
    /\ target_exc = FALSE
    /\ kids = 0
    /\ grandkids = 0
    /\ pipe = <<>>
    /\ produced = 0
    /\ trace_file = <<>>
    /\ ext_left = MaxExtSignals
    /\ hist = [HistInit EXCEPT !.armed = TRUE]
    /\ ClassIdle
    /\ ReportIdle
    /\ ParseIdle
    /\ TraceIdle

CoordNext ==
    \/ SentinelSetup \/ EnableStep \/ DisableStep \/ SentinelEnabled
    \/ SentinelRead \/ SentinelEOF \/ SentinelDrainFail \/ SentinelExit
    \/ KernelEmit
    \/ \E sig \in Signals : Deliver(sig)
    \/ \E sig \in Signals : ExtSignal(sig)

SpecCoord == CoordInit /\ [][CoordNext]_vars


---------------------------------------------------------------------------
(* Properties of the capture lifecycle *)

SignalOf(h) == IF h = "enable_ftrace" THEN "USR1" ELSE "USR2"

\* the innermost handler was started right after a handler of the same
\* signal had returned
DuplicateRuns ==
    /\ hstack # <<>>
    /\ Head(hstack).after = SignalOf(Head(hstack).h)

\* the innermost handler takes a step
HandlerSteps ==
    /\ hstack' # hstack
    /\ pending' = pending

\* C2: a handler that starts right after a handler of the same signal has
\* returned leaves the flags and every control file as they are, prints one
\* warning and returns without an exception.
C2_IdempotentLifecycle ==
    [][(DuplicateRuns /\ HandlerSteps) =>
          /\ hstack' = Tail(hstack)
          /\ enabled' = enabled
          /\ disabled' = disabled
          /\ ctl' = ctl
          /\ spc' = spc
          /\ warnings' = [warnings EXCEPT
                            ![SignalOf(Head(hstack).h)] = @ + 1]]_vars

\* a second start was handled right after a start, and a second stop right
\* after a stop
C2_Witness ==
    /\ hist.dups = Signals
    /\ warnings["USR1"] >= 1
    /\ warnings["USR2"] >= 1

\* C3: whatever the order and number of start and stop signals, tracing_on
\* is written '1' at most once and never after a stop has been handled.
C3_ForwardOnly ==
    /\ hist.trace_on_writes <= 1
    /\ ~hist.on_after_stop

\* the orchestrator has left handle_record and no sentinel runs
SessionOver ==
    /\ opc \in {"returned", "raised_platform", "raised_ftrace", "raised_io"}
    /\ spc \in {"none", "done", "killed"}

\* C4: a session that has written a control in setup_ftrace does not end
\* before reset_ftrace has run again, and never ends with tracing on.
C4_GuaranteedCleanup ==
    (SessionOver /\ hist.armed) =>
        /\ hist.cleanup
        /\ ctl[TRACING_ON] = "0"

\* C5: when the timeout of check_call expired after the start signal was
\* sent, bootstrap.py has sent the stop signal.
C5_TimeoutStillStops ==
    (hist.timed_out /\ "USR1" \in hist.boot_sent) =>
        "USR2" \in hist.boot_sent


\* the platform is not Linux, or tracefs is not mounted
Unsupported == ~platform.linux \/ ~platform.ftrace

\* C14: on an unsupported platform no step of the session writes a control
\* or starts the sentinel or bootstrap.py; the only step handle_record takes
\* is to raise, OSError when the platform is not Linux and else
\* FileNotFoundError.
C14_AbortBeforeCoordination ==
    [][Unsupported =>
          /\ ctl' = ctl
          /\ setup_k' = setup_k
          /\ spc' = "none"
          /\ rnpc' = "none"
          /\ bpc' = "none"
          /\ opc' \in {opc, IF ~platform.linux THEN "raised_platform"
                            ELSE "raised_ftrace"}]_vars

\* handle_record has raised FileNotFoundError on a Linux without tracefs,
\* with the controls as an earlier user left them
C14_Witness ==
    /\ platform.linux
    /\ ~platform.ftrace
    /\ opc = "raised_ftrace"
    /\ ctl = LeftOnCtl

\* C15: when start_process has ended, by returning or by raising, it has
\* sent SIGUSR1 and SIGUSR2; SIGUSR2 is never sent before SIGUSR1.
C15_StartAndStopSent ==
    /\ "USR2" \in hist.boot_sent => "USR1" \in hist.boot_sent
    /\ bpc \in {"exit0", "exit1"} => hist.boot_sent = Signals

\* C22: when start_process sends SIGUSR2, no process forked by the target
\* through the patched os.fork, and no descendant of one, is still running.
C22_StopAfterDescendants ==
    [][("USR2" \notin hist.boot_sent /\ "USR2" \in hist'.boot_sent)
          => (kids = 0 /\ grandkids = 0)]_vars

\* C24: once start_process has sent SIGUSR1 the first line of the pid file
\* is its own pid; when enable_ftrace writes '1' to tracing_on,
\* set_event_pid holds that pid; and the sentinel does not open trace_pipe
\* before enable_ftrace has run to its end.
C24_PidBeforeTracing ==
    /\ []("USR1" \in hist.boot_sent => pid_file = "root")
    /\ [][hist'.trace_on_writes > hist.trace_on_writes
            => (pid_file = "root" /\ ctl[SET_EVENT_PID] = "root")]_vars
    /\ [](spc = "drain" => (enabled /\ hist.trace_on_writes >= 1))

\* the sentinel drains trace_pipe in a session that found an older pid file:
\* tracing was turned on once, filtered to the pid of bootstrap.py
C24_Witness ==
    /\ spc = "drain"
    /\ "USR1" \in hist.boot_sent
    /\ hist.trace_on_writes = 1
    /\ ctl[SET_EVENT_PID] = "root"
    /\ ctl[TRACING_ON] = "1"
    /\ trace_file # <<>>

\* C26: once handle_record has returned in the orchestrator after
\* bootstrap.py exited with status 0, the target's children and their
\* descendants have terminated, the sentinel has left its drain loop and
\* run reset_ftrace, and no line is appended to the trace file any more.
C26_CaptureFinalOnReturn ==
    /\ []((opc = "returned" /\ bpc = "exit0") =>
            /\ kids = 0
            /\ grandkids = 0
            /\ spc = "done"
            /\ hist.cleanup)
    /\ [][(opc = "returned" /\ bpc = "exit0")
            => trace_file' = trace_file]_vars

\* the lines the kernel has produced so far, in order
Produced == [i \in 1 .. produced |-> i]

\* enable_ftrace has run to its end and disable_ftrace after it, and the
\* sentinel is still running
StartThenStop ==
    /\ SentinelAlive
    /\ hstack = <<>>
    /\ enabled
    /\ disabled
    /\ hist.trace_on_writes >= 1
    /\ hist.stop_handled
    /\ ~hist.on_after_stop

\* C23: unless an OSError ends it, the drain loop is left only when
\* readline finds trace_pipe at its end; the trace file holds the lines read
\* so far in the order they were produced; and once enable_ftrace and then
\* disable_ftrace have run, the sentinel leaves the loop and reset_ftrace
\* runs.
C23_DrainsToEndOfStream ==
    /\ [][(spc = "drain" /\ spc' # "drain" /\ ~hist'.io_error)
            => (pipe = <<>> /\ ctl[TRACING_ON] = "0")]_vars
    /\ [](trace_file \o pipe = Produced)
    /\ [][spc = "drain" /\ trace_file' # trace_file
            => (pipe # <<>> /\ trace_file' = Append(trace_file, Head(pipe)))]_vars
    /\ (StartThenStop ~> (spc = "done" /\ hist.cleanup))

\* the sentinel has left the drain loop at the end of trace_pipe, after
\* start and stop, with every produced line in the trace file, and
\* reset_ftrace has run
C23_Witness ==
    /\ spc = "done"
    /\ hist.cleanup
    /\ ~hist.io_error
    /\ hist.stop_handled
    /\ ~hist.on_after_stop
    /\ produced = MaxLines
    /\ trace_file = Produced

\* C16: once enable_ftrace and disable_ftrace have both run and returned,
\* tracing_on is '0'.
C16_HandlersSafe ==
    (enabled /\ disabled /\ hstack = <<>>) => ctl[TRACING_ON] = "0"

---------------------------------------------------------------------------
(* common.py: FaultParser.parse *)

\* the longest raw trace file
MaxTraceLines == 3

\* the pid of bootstrap.py, the first line of the pid file
\* (bootstrap.py:134-141)
RootPid == 100

\* the pid file after its first line: one "ppid,pid,time" record per fork
\* through the patched os.fork (bootstrap.py:99-104).  The root forks 101
\* or never forks.
ForkRecords == {<<>>, <<[ppid |-> RootPid, pid |-> 101]>>}

\* the pids __split_by_pid reads from the pid file (lines 122-133): the
\* first line is skipped, each record adds its two pids
FilePids(recs) == UNION {{recs[i].ppid, recs[i].pid} : i \in 1 .. Len(recs)}

\* what one line of the trace is to the three patterns: "err" matches
\* _err_expr (a page_fault_user event), "arg" matches _arg_expr, "ret"
\* matches _ret_expr, "other" matches none; val is the field the pattern
\* captures, as int() reads it (error_code, flag, ret)
LineContents ==
    {[kind |-> "err", val |-> 7], [kind |-> "err", val |-> 6],
     [kind |-> "arg", val |-> FAULT_FLAG_TRIED],
     [kind |-> "ret", val |-> 0], [kind |-> "ret", val |-> VM_FAULT_RETRY],
     [kind |-> "other", val |-> 0]}

\* (pid, cpu) of a line; pid 102 was not forked through the patched fork
LineOrigins ==
    {[pid |-> 100, cpu |-> 0], [pid |-> 100, cpu |-> 1],
     [pid |-> 101, cpu |-> 0], [pid |-> 102, cpu |-> 0]}

\* line n of the file; its timestamp grows with n
MkLine(n, o, c) ==
    [n |-> n, pid |-> o.pid, cpu |-> o.cpu, timestamp |-> n,
     kind |-> c.kind, val |-> c.val]

TraceInputs(maxlen) ==
    UNION {{[i \in 1 .. n |-> MkLine(i, o[i], c[i])] :
              o \in [1 .. n -> LineOrigins],
              c \in [1 .. n -> LineContents]} : n \in 0 .. maxlen}

\* the orders in which a for loop may visit the set `pids`
PidOrders(pids) ==
    {q \in [1 .. Cardinality(pids) -> pids] :
        \A i, j \in 1 .. Cardinality(pids) : i # j => q[i] # q[j]}

ParseInit ==
    /\ trace_lines \in TraceInputs(MaxTraceLines)
    /\ \E recs \in ForkRecords : pid_order \in PidOrders(FilePids(recs))
    /\ pi = 0
    /\ li = 0
    /\ flag = FALSE
    /\ p_faults = <<>>
    /\ ppc = "lines"
    /\ ClassIdle
    /\ ReportIdle
    /\ LifeIdle
    /\ TraceIdle

\* /tmp/fatras/trace_{pid}.tmp as __split_by_pid writes it (lines 141-148)
PidFile(pid) == SelectSeq(trace_lines, LAMBDA l : l.pid = pid)

\* the file the inner loop reads
CurFile == PidFile(pid_order[pi + 1])

\* lines 166-172: a Fault from an entry line; `line` and `ncls` are history:
\* the line it came from and the number of test_type calls on it
NewFault(l) ==
    [pid |-> l.pid, cpu |-> l.cpu, timestamp |-> l.timestamp,
     flags |-> FaultInit.flags, ret |-> FaultInit.ret, error |-> l.val,
     type |-> FaultInit.type, line |-> l.n, ncls |-> 0]

\* _faults[-1].flags = ... (line 178)
SetLastFlags(fs, v) == [fs EXCEPT ![Len(fs)].flags = v]

\* a fault after its ret is assigned and test_type has run on it
WithRet(f, v) ==
    [f EXCEPT !.ret = v,
              !.type = test_type([f EXCEPT !.ret = v]),
              !.ncls = @ + 1]

\* _faults[-1].ret = ...; _faults[-1].test_type() (lines 182-183)
SetLastRet(fs, l) ==
    [fs EXCEPT ![Len(fs)] = WithRet(fs[Len(fs)], l.val)]

\* lines 161-184: one iteration of `for line in f.readlines()`
ParseLine ==
    /\ ppc = "lines"
    /\ pi < Len(pid_order)
    /\ li < Len(CurFile)
    /\ LET l == CurFile[li + 1] IN
          IF l.kind = "err"
          THEN /\ flag' = TRUE
               /\ p_faults' = Append(p_faults, NewFault(l))
          ELSE IF ~flag
          THEN UNCHANGED <<flag, p_faults>>
          ELSE IF l.kind = "arg"
          THEN /\ p_faults' = SetLastFlags(p_faults, l.val)
               /\ UNCHANGED flag
          ELSE IF l.kind = "ret"
          THEN /\ p_faults' = SetLastRet(p_faults, l)
               /\ UNCHANGED flag
          ELSE UNCHANGED <<flag, p_faults>>
    /\ li' = li + 1
    /\ UNCHANGED <<trace_lines, pid_order, pi, ppc, cvars, tvars, rvars, lvars>>

\* lines 158-160: the file of this pid is read, the next pid's is opened
ParseNextPid ==
    /\ ppc = "lines"
    /\ pi < Len(pid_order)
    /\ li = Len(CurFile)
    /\ pi' = pi + 1
    /\ li' = 0
    /\ flag' = FALSE
    /\ UNCHANGED <<trace_lines, pid_order, p_faults, ppc, cvars, tvars, rvars,
                   lvars>>

\* line 185
ParseReturn ==
    /\ ppc = "lines"
    /\ pi = Len(pid_order)
    /\ ppc' = "done"
    /\ UNCHANGED <<trace_lines, pid_order, pi, li, flag, p_faults, cvars, tvars,
                   rvars, lvars>>

ParseNext == ParseLine \/ ParseNextPid \/ ParseReturn

SpecParse == ParseInit /\ [][ParseNext]_vars

---------------------------------------------------------------------------
(* Properties of FaultParser.parse *)

\* the line the inner loop reads next is a return line and no parsed fault
\* of its pid and cpu is still without a return line
UnmatchedReturnNext ==
    /\ ppc = "lines"
    /\ pi < Len(pid_order)
    /\ li < Len(CurFile)
    /\ CurFile[li + 1].kind = "ret"
    /\ ~\E i \in 1 .. Len(p_faults) :
           /\ p_faults[i].pid = CurFile[li + 1].pid
           /\ p_faults[i].cpu = CurFile[li + 1].cpu
           /\ p_faults[i].type = "None"

\* C8: reading a return line that has no unpaired entry of its pid and cpu
\* adds no fault, changes no parsed fault and does not end the pass.
C8_UnmatchedReturnDiscarded ==
    [][(UnmatchedReturnNext /\ li' = li + 1) =>
          /\ p_faults' = p_faults
          /\ flag' = flag
          /\ ppc' = ppc]_vars

\* the line the inner loop reads next is a return line and some parsed
\* fault of its pid and cpu is still without a return line
MatchedReturnNext ==
    /\ ppc = "lines"
    /\ pi < Len(pid_order)
    /\ li < Len(CurFile)
    /\ CurFile[li + 1].kind = "ret"
    /\ \E i \in 1 .. Len(p_faults) :
           /\ p_faults[i].pid = CurFile[li + 1].pid
           /\ p_faults[i].cpu = CurFile[li + 1].cpu
           /\ p_faults[i].type = "None"

\* the oldest parsed fault of the pid and cpu of line l without a return
OldestUnpaired(l) ==
    CHOOSE i \in 1 .. Len(p_faults) :
        /\ p_faults[i].pid = l.pid
        /\ p_faults[i].cpu = l.cpu
        /\ p_faults[i].type = "None"
        /\ \A j \in 1 .. i - 1 :
               ~(/\ p_faults[j].pid = l.pid
                 /\ p_faults[j].cpu = l.cpu
                 /\ p_faults[j].type = "None")

\* C18: reading a return line stores its return value in the oldest fault
\* of the same pid and cpu that has no return yet, and changes no other
\* fault.
C18_FifoPairing ==
    [][(MatchedReturnNext /\ li' = li + 1) =>
          /\ Len(p_faults') = Len(p_faults)
          /\ p_faults'[OldestUnpaired(CurFile[li + 1])].ret
                 = CurFile[li + 1].val
          /\ p_faults'[OldestUnpaired(CurFile[li + 1])].type # "None"
          /\ \A j \in 1 .. Len(p_faults) :
                 j # OldestUnpaired(CurFile[li + 1])
                     => p_faults'[j] = p_faults[j]]_vars

\* C19: test_type is called at most once on a fault, and every fault parse
\* returns has a type, assigned by one call of test_type.
C19_ClassifiedOnce ==
    /\ \A i \in 1 .. Len(p_faults) : p_faults[i].ncls <= 1
    /\ ppc = "done" =>
          \A i \in 1 .. Len(p_faults) :
              /\ p_faults[i].type # "None"
              /\ p_faults[i].ncls = 1

\* C20: parse returns a fault for every page_fault_user line of the root,
\* also when the root never forked, and the faults of the root come first.
C20_RootCovered ==
    ppc = "done" =>
        /\ \A n \in 1 .. Len(trace_lines) :
               (trace_lines[n].pid = RootPid /\ trace_lines[n].kind = "err")
                   => \E i \in 1 .. Len(p_faults) : p_faults[i].line = n
        /\ \A i, j \in 1 .. Len(p_faults) :
               (p_faults[i].pid = RootPid /\ p_faults[j].pid # RootPid)
                   => i < j


----------------------------------------------------------------------------
(* bootstrap.trace: the SIGVTALRM handler of one traced process.  The      *)
(* interpreter runs a handler between bytecodes of the main thread, so a   *)
(* tick is handled to its end before the next one is.                      *)

MaxTicks == 2
MaxDepth == 3

TracedPid == 101

\* stack frames by (co_filename, line): two of the user's program, one of
\* the tracer, one of code without a file name
StackFrames ==
    { [filename |-> "a.py", lineno |-> 10],
      [filename |-> "a.py", lineno |-> 20],
      [filename |-> "/fatras/bootstrap.py", lineno |-> 5],
      [filename |-> "", lineno |-> 1] }

\* bootstrap.should_trace for the file names of StackFrames; _base, the
\* directory of bootstrap.py, is /fatras
should_trace_file(filename) ==
    IF filename = "" THEN FALSE
    ELSE IF filename = "/fatras/bootstrap.py" THEN FALSE
    ELSE TRUE

\* what the interrupted program can be running, innermost frame first
StackInputs(maxdepth) ==
    UNION {[1 .. n -> StackFrames] : n \in 1 .. maxdepth}

\* the line fwrite_frame appends; the timestamp is the position of the
\* line in the file plus the ticks so far, a clock that only moves forward
FrameLine(frame, pid, fid) ==
    [pid |-> pid, fid |-> fid, lineno |-> frame.lineno,
     filename |-> frame.filename, ts |-> Len(frame_file) + fid]

TraceInit ==
    /\ ClassIdle
    /\ ReportIdle
    /\ ParseIdle
    /\ LifeIdle
    /\ TraceIdle

\* SIGVTALRM is delivered: trace(signum, frame) is entered
TraceEnter ==
    /\ tpc = "idle"
    /\ s_fid < MaxTicks
    /\ \E st \in StackInputs(MaxDepth) : stack' = st
    /\ tpc' = "walk"
    /\ UNCHANGED <<s_fid, frame_file, cvars, rvars, pvars, lvars>>

\* one iteration of `while frame`
TraceFrame ==
    /\ tpc = "walk"
    /\ stack # <<>>
    /\ frame_file' =
         IF should_trace_file(Head(stack).filename)
         THEN Append(frame_file, FrameLine(Head(stack), TracedPid, s_fid))
         ELSE frame_file
    /\ stack' = Tail(stack)
    /\ UNCHANGED <<s_fid, tpc, cvars, rvars, pvars, lvars>>

\* the loop ends: _fid += 1
TraceReturn ==
    /\ tpc = "walk"
    /\ stack = <<>>
    /\ s_fid' = s_fid + 1
    /\ tpc' = "idle"
    /\ UNCHANGED <<stack, frame_file, cvars, rvars, pvars, lvars>>

TraceNext ==
    \/ TraceEnter
    \/ TraceFrame
    \/ TraceReturn

SpecTrace == TraceInit /\ [][TraceNext]_vars

\* C21: the samples file holds at most one location record for each process and sample id
C21_OneRecordPerTick ==
    \A i, j \in 1 .. Len(frame_file) :
        (/\ frame_file[i].pid = frame_file[j].pid
         /\ frame_file[i].fid = frame_file[j].fid) => i = j

===========================================================================
